---- MODULE Spec2Model ----
(***************************************************************************)
(* The runner base class of lutris/runners/runner.py: the pre-launch       *)
(* library check, the resolution of a runner version against the remote    *)
(* catalog, and the install / run / uninstall lifecycle of one runner      *)
(* instance.                                                               *)
(*                                                                         *)
(* Values.  A path, a URL and a version string are sequences of their      *)
(* segments ("a/b" is <<"a","b">>, "1.0-i386" is <<"1.0","i386">>), so     *)
(* that basename, join, endswith and rsplit are computed, not assumed.     *)
(* Python's None (and the empty string, equally falsy) is <<>> for these,  *)
(* NoArch for an architecture, and an optional dict is a sequence of       *)
(* length 0 or 1.                                                          *)
(***************************************************************************)
EXTENDS Integers, Sequences, FiniteSets, TLC

VARIABLES
    \* the runner class: Runner's class attributes (runner.py 27-38)
    name, runnable_alone, require_libs, arch, download_url, runner_executable,
    \* the machine: LINUX_SYSTEM and the file system
    shared_libraries, system_arch, is_64_bit, fs,
    \* the call in progress
    op, pc, ops, version, opts, in_dialog, runner_info, runner, outcome,
    \* what the call in progress has done so far, in order
    events,
    \* get_env: its arguments, what it reads, and the mapping it builds
    os_env, disable_runtime, os_environ, system_config, RUNTIME_DISABLED, runtime_env,
    controllerdb, env,
    \* the runner's configuration: whether one was given, the _config field
    \* (None, or the one configuration object), and what the last access returned
    has_explicit_config, config, returned,
    \* the sidebar: the games the application has running, the rows of the
    \* list box, whether the Running row is shown, the selected row, and the
    \* selection the sidebar was constructed with
    running_games, children, running_row_visible, selected_row, selected_row_type,
    selected_row_id

descVars == <<name, runnable_alone, require_libs, arch, download_url, runner_executable>>
sysVars == <<shared_libraries, system_arch, is_64_bit, fs>>
callVars == <<op, pc, ops, version, opts, in_dialog, runner_info, runner, outcome>>
envVars == <<os_env, disable_runtime, os_environ, system_config, RUNTIME_DISABLED,
             runtime_env, controllerdb, env>>
\* the variables the runner's lifecycle methods do not touch
confVars == <<has_explicit_config, config, returned>>
sidebarVars == <<running_games, children, running_row_visible, selected_row,
                 selected_row_type, selected_row_id>>
otherVars == <<envVars, confVars, sidebarVars>>
vars == <<descVars, sysVars, callVars, events, otherVars>>

----------------------------------------------------------------------------
\* Bounds of the model

\* longest require_libs list
MaxLibs == 2
\* longest version list of a catalog answer
MaxVersions == 3
\* calls made on the runner in one behaviour
MaxOps == 2
\* longest version list of a catalog answer during an install
MaxCatalog == 1

Libs == {"libGL", "libvulkan", "libSDL"}
Archs == {"i386", "x86_64"}
SystemArchs == Archs \cup {"armv7"}
NoArch == "none"
NoVersion == <<>>
NoUrl == <<>>
None == <<>>

SeqsUpTo(S, n) == UNION {[1..k -> S] : k \in 0..n}
ToSet(s) == {s[i] : i \in DOMAIN s}

\* what a call ended in: a return, or an exception with what it carries
Returned == [kind |-> "returned"]
Pending == [kind |-> "pending"]
Raise(exc, args) == [kind |-> "raised", exc |-> exc, args |-> args]
IsRaised(o, exc) == o.kind = "raised" /\ o.exc = exc

----------------------------------------------------------------------------
\* Runner.prelaunch

\* a faulty variant: the architecture of the instances is not looked at
AvailableLibs_NoArchCheck(libs, inventory, a) ==
    {lib \in ToSet(libs) : lib \in DOMAIN inventory}

AvailableLibs(libs, inventory, a) ==
    {lib \in ToSet(libs) :
        /\ lib \in DOMAIN inventory
        /\ (a # NoArch => a \in inventory[lib])}

PrelaunchCheck(libs, inventory, a) ==
    LET unavailable_libs == ToSet(libs) \ AvailableLibs(libs, inventory, a)
    IN  IF unavailable_libs # {}
        THEN Raise("UnavailableLibrariesError", [libs |-> unavailable_libs, arch |-> a])
        ELSE Returned

\* every shared-library inventory: a library is missing, or has instances of
\* some architectures (possibly none)
Inventories(L) == UNION {[D -> SUBSET Archs] : D \in SUBSET L}

----------------------------------------------------------------------------
\* Runner.get_runner_version

\* the catalog's download URL of its i-th entry
EntryUrl(i) == <<"site", "files", "runner" \o ToString(i) \o ".tar">>

\* the versions a catalog lists, and the versions a caller asks for
CatalogVersions == {<<"1.0">>, <<"2.0">>}
RequestedVersions ==
    {NoVersion} \cup CatalogVersions
        \cup {v \o <<a>> : v \in CatalogVersions, a \in Archs}

EntryShapes == [version : CatalogVersions, architecture : Archs, default : BOOLEAN]
MkEntry(shape, i) ==
    [version |-> shape.version, architecture |-> shape.architecture,
     default |-> shape.default, url |-> EntryUrl(i)]
Catalogs(S, n) ==
    {[i \in DOMAIN shapes |-> MkEntry(shapes[i], i)] : shapes \in SeqsUpTo(S, n)}

\* the answers of GET {site}/api/runners/{name}: an HTTP error, no data, or a
\* dict whose "versions" is a list (a missing or null "versions" reads as [])
ResponsesOf(shapes, n) ==
    {[status |-> "http_error", versions |-> <<>>], [status |-> "empty", versions |-> <<>>]}
        \cup {[status |-> "ok", versions |-> c] : c \in Catalogs(shapes, n)}
Responses(n) == ResponsesOf(EntryShapes, n)

\* version.endswith("-i386") or version.endswith("-x86_64")
EndsWithArch(v) == Len(v) >= 2 /\ v[Len(v)] \in Archs
\* version.rsplit("-", 1)
RSplitVersion(v) == <<SubSeq(v, 1, Len(v) - 1), v[Len(v)]>>

\* a faulty variant: among several candidates of the architecture the last default is taken
GetRunnerVersion_LastDefault(response, requested, sysarch, is64) ==
    IF response.status # "ok" THEN None
    ELSE
    LET split == IF requested # NoVersion /\ EndsWithArch(requested)
                 THEN RSplitVersion(requested) ELSE <<requested, sysarch>>
        HasVersion(v) == v.version = split[1]
        versions == IF requested # NoVersion
                    THEN SelectSeq(response.versions, HasVersion) ELSE response.versions
        HasArch(v) == v.architecture = split[2]
        IsDefault(v) == v.default = TRUE
        versions_for_arch == SelectSeq(versions, HasArch)
        defaults == SelectSeq(versions_for_arch, IsDefault)
    IN  IF Len(versions_for_arch) = 0 THEN None
        ELSE IF defaults # <<>> THEN <<defaults[Len(defaults)]>>
        ELSE <<versions_for_arch[1]>>

\* a faulty variant: the architecture suffix of the requested version is stripped but
\* the local architecture still filters
GetRunnerVersion_SuffixIgnored(response, requested, sysarch, is64) ==
    IF response.status # "ok" THEN None
    ELSE
    LET split == IF requested # NoVersion /\ EndsWithArch(requested)
                 THEN <<RSplitVersion(requested)[1], sysarch>> ELSE <<requested, sysarch>>
        HasVersion(v) == v.version = split[1]
        versions == IF requested # NoVersion
                    THEN SelectSeq(response.versions, HasVersion) ELSE response.versions
        HasArch(v) == v.architecture = split[2]
        IsDefault(v) == v.default = TRUE
        versions_for_arch == SelectSeq(versions, HasArch)
        defaults == SelectSeq(versions_for_arch, IsDefault)
    IN  IF Len(versions_for_arch) = 1 THEN <<versions_for_arch[1]>>
        ELSE IF Len(versions_for_arch) > 1 /\ defaults # <<>> THEN <<defaults[1]>>
        ELSE IF Len(versions_for_arch) >= 1 THEN <<versions_for_arch[1]>>
        ELSE None

\* a faulty variant: the fallback to the candidates of another architecture
\* is taken on every system, 64-bit or not
GetRunnerVersion_FallbackEverywhere(response, requested, sysarch, is64) ==
    IF response.status # "ok" THEN None
    ELSE
    LET split == IF requested # NoVersion /\ EndsWithArch(requested)
                 THEN RSplitVersion(requested) ELSE <<requested, sysarch>>
        HasVersion(v) == v.version = split[1]
        versions == IF requested # NoVersion
                    THEN SelectSeq(response.versions, HasVersion) ELSE response.versions
        HasArch(v) == v.architecture = split[2]
        IsDefault(v) == v.default = TRUE
        versions_for_arch == SelectSeq(versions, HasArch)
        defaults_for_arch == SelectSeq(versions_for_arch, IsDefault)
        defaults == SelectSeq(versions, IsDefault)
    IN  IF Len(versions_for_arch) = 1 THEN <<versions_for_arch[1]>>
        ELSE IF Len(versions_for_arch) > 1 /\ defaults_for_arch # <<>>
            THEN <<defaults_for_arch[1]>>
        ELSE IF Len(versions_for_arch) = 0 /\ Len(versions) = 1
            THEN <<versions[1]>>
        ELSE IF Len(versions_for_arch) = 0 /\ Len(versions) > 1 /\ defaults # <<>>
            THEN <<defaults[1]>>
        ELSE IF Len(versions_for_arch) >= 1 THEN <<versions_for_arch[1]>>
        ELSE None

GetRunnerVersion(response, requested, sysarch, is64) ==
    IF response.status # "ok" THEN None
    ELSE
    LET split == IF requested # NoVersion /\ EndsWithArch(requested)
                 THEN RSplitVersion(requested) ELSE <<requested, sysarch>>
        HasVersion(v) == v.version = split[1]
        versions == IF requested # NoVersion
                    THEN SelectSeq(response.versions, HasVersion) ELSE response.versions
        HasArch(v) == v.architecture = split[2]
        IsDefault(v) == v.default = TRUE
        versions_for_arch == SelectSeq(versions, HasArch)
        defaults_for_arch == SelectSeq(versions_for_arch, IsDefault)
        defaults == SelectSeq(versions, IsDefault)
    IN  IF Len(versions_for_arch) = 1 THEN <<versions_for_arch[1]>>
        ELSE IF Len(versions_for_arch) > 1 /\ defaults_for_arch # <<>>
            THEN <<defaults_for_arch[1]>>
        ELSE IF Len(versions_for_arch) = 0 /\ Len(versions) = 1 /\ is64
            THEN <<versions[1]>>
        ELSE IF Len(versions_for_arch) = 0 /\ Len(versions) > 1 /\ is64 /\ defaults # <<>>
            THEN <<defaults[1]>>
        ELSE IF Len(versions_for_arch) >= 1 THEN <<versions_for_arch[1]>>
        ELSE None

----------------------------------------------------------------------------
\* Runner.get_env.  A mapping (os.environ, the system configuration's "env",
\* the result) is a function from the names it holds.  An option of the system
\* configuration that get_env only tests for truth is FALSE or "" when it is
\* absent, None, False or empty.

EmptyEnv == [k \in {} |-> ""]
Put(m, k, v) == [x \in DOMAIN m \cup {k} |-> IF x = k THEN v ELSE m[x]]
Get(m, k) == IF k \in DOMAIN m THEN m[k] ELSE ""

\* dict.update
Update(m, n) == [x \in DOMAIN m \cup DOMAIN n |-> IF x \in DOMAIN n THEN n[x] ELSE m[x]]

pathsep == ":"
\* os.pathsep.join(filter(None, parts))
RECURSIVE JoinNonEmpty(_)
JoinNonEmpty(parts) ==
    LET rest == SelectSeq(parts, LAMBDA x : x # "")
    IN  IF rest = <<>> THEN ""
        ELSE IF Len(rest) = 1 THEN rest[1]
        ELSE rest[1] \o pathsep \o JoinNonEmpty(Tail(rest))

PrimeNames == {"__NV_PRIME_RENDER_OFFLOAD", "__GLX_VENDOR_LIBRARY_NAME", "__VK_LAYER_NV_optimus"}

\* get_env, the seed and the shader cache settings
SeedEnv(seed, environ, n) ==
    Put(Put(IF seed THEN environ ELSE EmptyEnv,
            "__GL_SHADER_DISK_CACHE", "1"),
        "__GL_SHADER_DISK_CACHE_PATH", "shaders/" \o n)

\* get_env, the SDL settings: a controller configuration that is a file is
\* replaced by what the file holds
SdlVars(e, cfg, db) ==
    LET a == IF cfg.sdl_gamecontrollerconfig # ""
             THEN Put(e, "SDL_GAMECONTROLLERCONFIG",
                      IF db # "" THEN db ELSE cfg.sdl_gamecontrollerconfig)
             ELSE e
    IN  IF cfg.sdl_video_fullscreen # "" /\ cfg.sdl_video_fullscreen # "off"
        THEN Put(a, "SDL_VIDEO_FULLSCREEN_DISPLAY", cfg.sdl_video_fullscreen)
        ELSE a

\* a faulty variant: the Vulkan layer variable is left out
PrimeVars_TwoOfThree(e, cfg) ==
    LET a == IF cfg.dri_prime THEN Put(e, "DRI_PRIME", "1") ELSE e
    IN  IF cfg.prime
        THEN Put(Put(a, "__NV_PRIME_RENDER_OFFLOAD", "1"),
                 "__GLX_VENDOR_LIBRARY_NAME", "nvidia")
        ELSE a

\* get_env, DRI_PRIME and the prime variables
PrimeVars(e, cfg) ==
    LET a == IF cfg.dri_prime THEN Put(e, "DRI_PRIME", "1") ELSE e
    IN  IF cfg.prime
        THEN Put(Put(Put(a, "__NV_PRIME_RENDER_OFFLOAD", "1"),
                     "__GLX_VENDOR_LIBRARY_NAME", "nvidia"),
                 "__VK_LAYER_NV_optimus", "NVIDIA_only")
        ELSE a

\* get_env, the PulseAudio latency and the Vulkan ICD files
AudioAndIcdVars(e, cfg) ==
    LET a == IF cfg.pulse_latency THEN Put(e, "PULSE_LATENCY_MSEC", "60") ELSE e
    IN  IF cfg.vk_icd # "" THEN Put(a, "VK_ICD_FILENAMES", cfg.vk_icd) ELSE a

\* Runner.use_runtime
use_runtime(killed, cfg) == ~killed /\ ~cfg.disable_runtime

\* get_env, the library path of the runtime, "" when there is none to merge
RuntimeLdLibraryPath(disabled, killed, cfg, rt) ==
    IF ~disabled /\ use_runtime(killed, cfg) THEN Get(rt, "LD_LIBRARY_PATH") ELSE ""

\* a faulty variant: the two paths are joined without dropping an empty one
MergeLdLibraryPath_PlainJoin(e, rtpath) ==
    IF rtpath # ""
    THEN Put(e, "LD_LIBRARY_PATH", rtpath \o pathsep \o Get(e, "LD_LIBRARY_PATH"))
    ELSE e

\* get_env, the merge of the runtime's library path
MergeLdLibraryPath(e, rtpath) ==
    IF rtpath # ""
    THEN Put(e, "LD_LIBRARY_PATH", JoinNonEmpty(<<rtpath, Get(e, "LD_LIBRARY_PATH")>>))
    ELSE e

\* get_env up to the user's overrides
ComputedEnv(seed, disabled, environ, cfg, killed, rt, db, n) ==
    MergeLdLibraryPath(
        AudioAndIcdVars(PrimeVars(SdlVars(SeedEnv(seed, environ, n), cfg, db), cfg), cfg),
        RuntimeLdLibraryPath(disabled, killed, cfg, rt))

\* a faulty variant: the computed values are laid over the user's overrides
ApplyOverrides_ComputedWins(e, cfg) == Update(cfg.env, e)

\* get_env, the user's overrides
ApplyOverrides(e, cfg) == Update(e, cfg.env)

\* the process environments, runtime environments and system configurations
\* get_env is tried on
Environs ==
    {Update(ld, pr) :
        ld \in {EmptyEnv, [k \in {"LD_LIBRARY_PATH"} |-> ""],
                [k \in {"LD_LIBRARY_PATH"} |-> "/usr/lib"]},
        pr \in {[k \in {"HOME"} |-> "/home/user"],
                [k \in {"HOME", "__NV_PRIME_RENDER_OFFLOAD"} |->
                    IF k = "HOME" THEN "/home/user" ELSE "1"]}}
RuntimeEnvs ==
    {EmptyEnv, [k \in {"LD_LIBRARY_PATH"} |-> ""],
     [k \in {"LD_LIBRARY_PATH"} |-> "/runtime/lib32:/runtime/lib64"]}
Overrides ==
    {EmptyEnv,
     [k \in {"LD_LIBRARY_PATH"} |-> "/opt/mine"],
     [k \in {"__GLX_VENDOR_LIBRARY_NAME"} |-> "mesa"],
     [k \in {"DRI_PRIME", "MANGOHUD"} |-> IF k = "DRI_PRIME" THEN "0" ELSE "1"],
     [k \in {"__GL_SHADER_DISK_CACHE", "HOME"} |-> IF k = "HOME" THEN "/tmp" ELSE "0"]}
OtherOptions ==
    {[sdl_gamecontrollerconfig |-> "", sdl_video_fullscreen |-> "", dri_prime |-> FALSE,
      pulse_latency |-> FALSE, vk_icd |-> ""],
     [sdl_gamecontrollerconfig |-> "~/controllers.txt", sdl_video_fullscreen |-> "1",
      dri_prime |-> TRUE, pulse_latency |-> TRUE, vk_icd |-> "/usr/share/vulkan/icd.d/a.json"],
     [sdl_gamecontrollerconfig |-> "~/controllers.txt", sdl_video_fullscreen |-> "off",
      dri_prime |-> TRUE, pulse_latency |-> FALSE, vk_icd |-> ""]}
SystemConfigs ==
    {[sdl_gamecontrollerconfig |-> o.sdl_gamecontrollerconfig,
      sdl_video_fullscreen |-> o.sdl_video_fullscreen, dri_prime |-> o.dri_prime,
      prime |-> p, pulse_latency |-> o.pulse_latency, vk_icd |-> o.vk_icd,
      disable_runtime |-> d, env |-> e] :
        o \in OtherOptions, p \in BOOLEAN, d \in BOOLEAN, e \in Overrides}
NoSystemConfig ==
    [sdl_gamecontrollerconfig |-> "", sdl_video_fullscreen |-> "", dri_prime |-> FALSE,
     prime |-> FALSE, pulse_latency |-> FALSE, vk_icd |-> "", disable_runtime |-> FALSE,
     env |-> EmptyEnv]

IdleEnv ==
    /\ os_env = FALSE
    /\ disable_runtime = FALSE
    /\ os_environ = EmptyEnv
    /\ system_config = NoSystemConfig
    /\ RUNTIME_DISABLED = FALSE
    /\ runtime_env = EmptyEnv
    /\ controllerdb = ""
    /\ env = EmptyEnv

----------------------------------------------------------------------------
\* The runner's configuration.  A configuration object is a record whose id
\* tells the objects apart: 0 for one given by the caller, and the count of
\* the objects built so far for one the runner builds.

MaxAccesses == 3

EmptyDict == [k \in {} |-> ""]
NoGame == ""

\* LutrisConfig(runner_slug = slug): a truthy object with no game level
LutrisConfig(slug, k) ==
    [id |-> k, runner_slug |-> slug, game_config_id |-> NoGame, game_config |-> EmptyDict]

\* the configurations a caller gives
ExplicitConfigs(slug) ==
    {[id |-> 0, runner_slug |-> slug, game_config_id |-> "doom-1", game_config |-> g] :
        g \in {EmptyDict, [k \in {"main_file"} |-> "/games/doom/doom.exe"]}}

\* a faulty variant: every access builds a configuration
LazyConfig_AlwaysBuilt(c, slug, k) == <<LutrisConfig(slug, k)>>

\* the config property, the field after the access
LazyConfig(c, slug, k) == IF c = None THEN <<LutrisConfig(slug, k)>> ELSE c

IdleConfig ==
    /\ has_explicit_config = FALSE
    /\ config = None
    /\ returned = None

----------------------------------------------------------------------------
\* The sidebar (LutrisSidebar).  A row is its id and its type.

MaxGames == 2

Row(id, type) == [id |-> id, type |-> type]
NoRow == Row("", "")
running_row == Row("running", "dynamic_category")

\* the enabled services, in the order services.get_enabled_services gives them
ServiceLists == {<<>>, <<"steam">>, <<"gog">>, <<"gog", "steam">>}

\* initialize_rows, the rows it adds
Rows(enabled) ==
    <<Row("all", "category"), Row("recent", "dynamic_category"), Row("favorite", "category"),
      running_row>>
        \o [i \in 1..Len(enabled) |-> Row(enabled[i], "service")]
        \o <<Row("wine", "runner"), Row("Linux", "platform")>>

\* initialize_rows, the row it selects: the first one of the type and id the
\* sidebar was constructed with; none is selected among rows just added
InitialSelection(rows, type, id) ==
    LET found == {i \in DOMAIN rows : rows[i].type = type /\ rows[i].id = id}
    IN  IF found = {} THEN NoRow
        ELSE rows[CHOOSE i \in found : \A j \in found : i <= j]

\* the selections a sidebar is constructed with: the default, and saved ones
Selections ==
    {Row("all", "category"), Row("wine", "runner"), Row("steam", "service"), running_row}

IdleSidebar ==
    /\ running_games = 0
    /\ children = <<>>
    /\ running_row_visible = FALSE
    /\ selected_row = NoRow
    /\ selected_row_type = "category"
    /\ selected_row_id = "all"
IdleOthers == IdleEnv /\ IdleConfig /\ IdleSidebar

----------------------------------------------------------------------------
\* The file system: the paths that exist, each a file or a directory

RUNNER_DIR == <<"runners">>
CACHE_DIR == <<"cache">>
SHADER_CACHE_DIR == <<"shaders">>

IsPrefix(p, q) == Len(p) <= Len(q) /\ SubSeq(q, 1, Len(p)) = p
Parents(p) == {SubSeq(p, 1, k) : k \in 1..(Len(p) - 1)}
path_exists(f, p) == p # <<>> /\ p \in DOMAIN f
isfile(f, p) == p \in DOMAIN f /\ f[p] = "file"
isdir(f, p) == p \in DOMAIN f /\ f[p] = "dir"
WriteFile(f, p) ==
    [q \in DOMAIN f \cup Parents(p) \cup {p} |->
        IF q = p THEN "file" ELSE IF q \in Parents(p) THEN "dir" ELSE f[q]]
MakeDirs(f, p) ==
    [q \in DOMAIN f \cup Parents(p) \cup {p} |->
        IF q = p \/ q \in Parents(p) THEN "dir" ELSE f[q]]
RECURSIVE WriteFiles(_, _)
WriteFiles(f, ps) ==
    IF ps = {} THEN f
    ELSE LET p == CHOOSE x \in ps : TRUE IN WriteFiles(WriteFile(f, p), ps \ {p})
remove(f, p) == [q \in DOMAIN f \ {p} |-> f[q]]
\* a faulty variant: only the folder's own entry is removed
remove_folder_TopOnly(f, p) == [q \in DOMAIN f \ {p} |-> f[q]]
remove_folder(f, p) == [q \in {x \in DOMAIN f : ~IsPrefix(p, x)} |-> f[q]]
EmptyFs == [q \in {} |-> "file"]

\* os.path.basename of a URL or a path
basename(p) == p[Len(p)]
\* "-".join of the segments of a version string: the string itself
RECURSIVE Dashed(_)
Dashed(s) ==
    IF Len(s) = 0 THEN ""
    ELSE IF Len(s) = 1 THEN s[1]
    ELSE s[1] \o "-" \o Dashed(Tail(s))

----------------------------------------------------------------------------
\* Runner properties

directory(n) == RUNNER_DIR \o <<n>>
ExecutablePath(exe) == RUNNER_DIR \o exe
\* "wine" in self.name
ContainsWine(n) == n \in {"wine", "winesteam"}

\* a faulty variant: a runner counts as installed once its directory exists
is_installed_ByDirectory(f, n, exe) == path_exists(f, directory(n))

\* Runner.is_installed, for a runner that declares runner_executable
is_installed(f, n, exe) == path_exists(f, ExecutablePath(exe))

\* what extract_archive may write under dest that the runner looks at: its
\* executable, when that lies under dest
ArchiveFiles(dest, exe) ==
    IF exe # <<>> /\ IsPrefix(dest, ExecutablePath(exe)) THEN {ExecutablePath(exe)} ELSE {}
ExtractFailureMessages == {"unexpected end of data", "not a tar archive"}

----------------------------------------------------------------------------
\* The install / run / uninstall lifecycle of one runner instance.  A call is
\* followed statement by statement: pc is the statement the call is at, events
\* what it has done so far.  The runner's configuration has no
\* "runner_executable" override, so get_executable is RUNNER_DIR joined with
\* the class attribute.

\* the versions install is asked for, and those install_dialog gets from a
\* runner's get_version
InstallVersions == {NoVersion, <<"1.0", "i386">>, <<"2.0">>}
DialogVersions == {NoVersion, <<"1.0", "i386">>}
\* the catalog entries of the runner being installed
InstallShapes == [version : {<<"1.0">>}, architecture : Archs, default : {TRUE}]
RunnerNames == {"wine", "winesteam", "libretro", "dosbox"}
FixedUrl == <<"site", "files", "fixed.tar">>

NoOpts ==
    [downloader |-> FALSE, callback |-> FALSE, dest |-> <<>>, merge_single |-> <<>>,
     url |-> NoUrl, archive |-> <<>>]
NoResponse == [status |-> "unset", versions |-> <<>>]

Event(e) == [ev |-> e]
Happened(evs, e) == \E i \in DOMAIN evs : evs[i].ev = e

\* the call ends: it returns, or raises to its caller
Finish(o, evs) ==
    /\ pc' = "idle"
    /\ outcome' = o
    /\ events' = events \o evs

\* an exception leaves install: install_dialog catches RunnerInstallationError
\* and shows it, anything else (and any exception of a direct call) reaches
\* the caller
RaiseFromInstall(o, evs) ==
    IF in_dialog /\ o.exc = "RunnerInstallationError"
    THEN /\ pc' = "dialog_return"
         /\ outcome' = outcome
         /\ events' = events \o evs \o <<[ev |-> "ErrorDialog", message |-> o.args]>>
    ELSE Finish(o, evs)

NewCall(kind) ==
    /\ pc = "idle"
    /\ ops < MaxOps
    /\ ops' = ops + 1
    /\ op' = kind
    /\ events' = <<>>
    /\ runner_info' = NoResponse
    /\ runner' = None

CallRun ==
    /\ NewCall("run")
    /\ pc' = "run"
    /\ outcome' = Pending
    /\ version' = NoVersion
    /\ opts' = NoOpts
    /\ in_dialog' = FALSE
    /\ UNCHANGED <<otherVars, descVars, sysVars>>

CallInstall ==
    /\ NewCall("install")
    /\ \E v \in InstallVersions, d \in BOOLEAN, cb \in BOOLEAN :
        /\ version' = v
        /\ opts' = [NoOpts EXCEPT !.downloader = d, !.callback = cb]
    /\ pc' = "install"
    /\ outcome' = Pending
    /\ in_dialog' = FALSE
    /\ UNCHANGED <<otherVars, descVars, sysVars>>

\* Runner.can_uninstall
can_uninstall(f, n) == isdir(f, directory(n))

Uninstall ==
    /\ NewCall("uninstall")
    /\ fs' = IF isdir(fs, directory(name)) THEN remove_folder(fs, directory(name)) ELSE fs
    /\ pc' = "idle"
    /\ outcome' = Returned
    /\ version' = NoVersion
    /\ opts' = NoOpts
    /\ in_dialog' = FALSE
    /\ UNCHANGED <<otherVars, descVars, shared_libraries, system_arch, is_64_bit>>

\* a faulty variant: the process launcher is started before the prelaunch check
RunSteps_SpawnFirst == <<"get_run_data", "spawn", "prelaunch">>

\* run, the order of its statements once the runner is installed
RunSteps == <<"get_run_data", "prelaunch", "spawn">>
StepAfter(s) ==
    LET i == CHOOSE k \in DOMAIN RunSteps : RunSteps[k] = s
    IN  IF i = Len(RunSteps) THEN "return" ELSE RunSteps[i + 1]
\* the statement is done: run goes on to the next one, or returns
Proceed(s, evs) ==
    IF StepAfter(s) = "return"
    THEN Finish(Returned, evs)
    ELSE /\ pc' = StepAfter(s)
         /\ events' = events \o evs
         /\ outcome' = outcome

\* run, to the install prompt or to get_run_data
\* a faulty variant: the runner is checked and launched whether or not it is
\* runnable alone
Run_Enter_Unguarded ==
    /\ pc = "run"
    /\ IF runner_executable = <<>>
       THEN Finish(Raise("ValueError", "runner_executable not set"), <<Event("is_installed")>>)
       ELSE /\ pc' = IF is_installed(fs, name, runner_executable)
                     THEN RunSteps[1] ELSE "install_dialog"
            /\ events' = Append(events, Event("is_installed"))
            /\ outcome' = outcome
    /\ UNCHANGED <<otherVars, descVars, sysVars, op, ops, version, opts, in_dialog, runner_info, runner>>

Run_Enter ==
    /\ pc = "run"
    /\ IF ~runnable_alone
       THEN Finish(Returned, <<>>)
       ELSE IF runner_executable = <<>>
       THEN Finish(Raise("ValueError", "runner_executable not set"), <<Event("is_installed")>>)
       ELSE /\ pc' = IF is_installed(fs, name, runner_executable)
                     THEN RunSteps[1] ELSE "install_dialog"
            /\ events' = Append(events, Event("is_installed"))
            /\ outcome' = outcome
    /\ UNCHANGED <<otherVars, descVars, sysVars, op, ops, version, opts, in_dialog, runner_info, runner>>

\* install_dialog, to the answer of the question dialog
InstallDialog_Ask ==
    /\ pc = "install_dialog"
    /\ \E yes \in BOOLEAN :
        IF yes
        THEN /\ \E v \in DialogVersions : version' = v
             /\ opts' = [NoOpts EXCEPT !.downloader = TRUE]
             /\ in_dialog' = TRUE
             /\ pc' = "install"
             /\ events' = Append(events, [ev |-> "QuestionDialog", yes |-> TRUE])
             /\ outcome' = outcome
        ELSE /\ Finish(Returned, <<[ev |-> "QuestionDialog", yes |-> FALSE],
                                   Event("install cancelled")>>)
             /\ UNCHANGED <<version, opts, in_dialog>>
    /\ UNCHANGED <<otherVars, descVars, sysVars, op, ops, runner_info, runner>>

\* install_dialog's return value, and run's test of it
InstallDialog_Return ==
    /\ pc = "dialog_return"
    /\ IF is_installed(fs, name, runner_executable)
       THEN /\ pc' = RunSteps[1]
            /\ events' = Append(events, Event("is_installed"))
            /\ outcome' = outcome
       ELSE Finish(Returned, <<Event("is_installed"), Event("install cancelled")>>)
    /\ in_dialog' = FALSE
    /\ UNCHANGED <<otherVars, descVars, sysVars, op, ops, version, opts, runner_info, runner>>

\* install, the branch on download_url
Install_Begin ==
    /\ pc = "install"
    /\ IF download_url # NoUrl
       THEN /\ opts' = [opts EXCEPT !.dest = directory(name), !.url = download_url]
            /\ pc' = "download_and_extract"
       ELSE /\ opts' = opts
            /\ pc' = "get_runner_version"
    /\ UNCHANGED <<otherVars, descVars, sysVars, op, ops, version, in_dialog, runner_info, runner,
                   outcome, events>>

\* a faulty variant: the downloader is looked for before the catalog is asked
InstallResolveOutcome_DownloaderFirst(found, downloader, n, v) ==
    IF ~downloader THEN Raise("RuntimeError", "Missing mandatory downloader")
    ELSE IF found = None
    THEN Raise("RunnerInstallationError",
               [text |-> "Failed to retrieve {} ({}) information", args |-> <<n, v>>])
    ELSE Returned

\* install, what the two checks after get_runner_version raise
InstallResolveOutcome(found, downloader, n, v) ==
    IF found = None
    THEN Raise("RunnerInstallationError",
               [text |-> "Failed to retrieve {} ({}) information", args |-> <<n, v>>])
    ELSE IF ~downloader THEN Raise("RuntimeError", "Missing mandatory downloader")
    ELSE Returned

\* install, the destination rules of the runner families
InstallOpts(o, n, v, found) ==
    LET wine == IF ContainsWine(n)
                THEN [o EXCEPT !.merge_single = <<TRUE>>,
                               !.dest = directory(n)
                                   \o <<Dashed(found.version \o <<found.architecture>>)>>]
                ELSE o
        libretro == IF n = "libretro" /\ v # NoVersion
                    THEN [wine EXCEPT !.merge_single = <<FALSE>>,
                                      !.dest = RUNNER_DIR \o <<"retroarch", "cores">>]
                    ELSE wine
    IN  [libretro EXCEPT !.url = found.url]

\* install, from get_runner_version to the call of download_and_extract
Install_Resolve ==
    /\ pc = "get_runner_version"
    /\ \E response \in ResponsesOf(InstallShapes, MaxCatalog) :
        LET found == GetRunnerVersion(response, version, system_arch, is_64_bit)
            query == [ev |-> "catalog", status |-> response.status,
                      listed |-> Len(response.versions)]
            check == InstallResolveOutcome(found, opts.downloader, name, version)
        IN  /\ runner_info' = NoResponse
            /\ runner' = found
            /\ IF check.kind = "raised"
               THEN /\ RaiseFromInstall(check, <<query>>)
                    /\ opts' = opts
               ELSE /\ opts' = InstallOpts(opts, name, version, found[1])
                    /\ pc' = "download_and_extract"
                    /\ events' = Append(events, query)
                    /\ outcome' = outcome
    /\ UNCHANGED <<otherVars, descVars, sysVars, op, ops, version, in_dialog>>

\* download_and_extract calls opts["downloader"]: None is not callable
DownloaderCallable(downloader) == downloader

\* a faulty variant: the destination defaults to the runner root whatever install gave
DownloadArgs_RootDest(o) ==
    [archive |-> CACHE_DIR \o <<basename(o.url)>>,
     dest |-> RUNNER_DIR,
     merge_single |-> IF o.merge_single = <<>> THEN FALSE ELSE o.merge_single[1],
     callback |-> o.callback]

\* download_and_extract, the context bag handed to the downloader
DownloadArgs(o) ==
    [archive |-> CACHE_DIR \o <<basename(o.url)>>,
     dest |-> IF o.dest = <<>> THEN RUNNER_DIR ELSE o.dest,
     merge_single |-> IF o.merge_single = <<>> THEN FALSE ELSE o.merge_single[1],
     callback |-> o.callback]

DownloadAndExtract ==
    /\ pc = "download_and_extract"
    /\ IF ~DownloaderCallable(opts.downloader)
       THEN /\ RaiseFromInstall(Raise("TypeError", "'NoneType' object is not callable"), <<>>)
            /\ opts' = opts
       ELSE LET args == DownloadArgs(opts)
            IN  /\ opts' = [opts EXCEPT !.archive = args.archive, !.dest = args.dest,
                                        !.merge_single = <<args.merge_single>>]
                /\ events' = Append(events,
                        [ev |-> "downloader", url |-> opts.url, file |-> args.archive,
                         continuation |-> "extract", args |-> args])
                /\ pc' = "downloading"
                /\ outcome' = outcome
    /\ UNCHANGED <<otherVars, descVars, sysVars, op, ops, version, in_dialog, runner_info, runner>>

\* the downloader: the archive is fetched or it is not, and the continuation
\* is called
Downloader_Finish ==
    /\ pc = "downloading"
    /\ \E fetched \in BOOLEAN :
        fs' = IF fetched THEN WriteFile(fs, opts.archive) ELSE fs
    /\ pc' = "extract"
    /\ UNCHANGED <<otherVars, descVars, shared_libraries, system_arch, is_64_bit, op, ops, version,
                   opts, in_dialog, runner_info, runner, outcome, events>>

\* extract, the test that the archive is there
Extract_Check ==
    /\ pc = "extract"
    /\ IF ~path_exists(fs, opts.archive)
       THEN RaiseFromInstall(
                Raise("RunnerInstallationError",
                      [text |-> "Failed to extract {}", args |-> <<opts.archive>>]), <<>>)
       ELSE /\ pc' = "extract_archive"
            /\ UNCHANGED <<outcome, events>>
    /\ UNCHANGED <<otherVars, descVars, sysVars, op, ops, version, opts, in_dialog, runner_info, runner>>

\* a faulty variant: the installation error names the archive only
WrapExtractFailure_NoCause(archive, msg) ==
    Raise("RunnerInstallationError", [text |-> "Failed to extract {}", args |-> <<archive>>])

\* extract, the installation error raised from an ExtractFailure
WrapExtractFailure(archive, msg) ==
    Raise("RunnerInstallationError",
          [text |-> "Failed to extract {}: {}", args |-> <<archive, msg>>])

\* extract, the call of extract_archive: it succeeds, or raises ExtractFailure
\* with some files of the archive written
Extract_Archive ==
    /\ pc = "extract_archive"
    /\ \E ok \in BOOLEAN, written \in SUBSET ArchiveFiles(opts.dest, runner_executable),
          msg \in ExtractFailureMessages :
        IF ~ok
        THEN /\ fs' = WriteFiles(fs, written)
             /\ RaiseFromInstall(
                    WrapExtractFailure(opts.archive, msg),
                    <<[ev |-> "extract_archive", raised |-> "ExtractFailure", message |-> msg],
                      Event("logger.error")>>)
        ELSE /\ fs' = MakeDirs(WriteFiles(fs, written), opts.dest)
             /\ pc' = "remove_archive"
             /\ events' = Append(events,
                    [ev |-> "extract_archive", raised |-> "", message |-> ""])
             /\ outcome' = outcome
    /\ UNCHANGED <<otherVars, descVars, shared_libraries, system_arch, is_64_bit, op, ops, version,
                   opts, in_dialog, runner_info, runner>>

\* extract, os.remove(archive)
Extract_RemoveArchive ==
    /\ pc = "remove_archive"
    /\ fs' = remove(fs, opts.archive)
    /\ events' = Append(events, Event("remove_archive"))
    /\ pc' = "post_install"
    /\ UNCHANGED <<otherVars, descVars, shared_libraries, system_arch, is_64_bit, op, ops, version,
                   opts, in_dialog, runner_info, runner, outcome>>

\* a faulty variant: the wine version cache is cleared for every runner
PostInstallHooks_AlwaysClear(f, n, exe) ==
    <<Event("cache_clear")>>
        \o (IF exe # <<>> /\ isfile(f, ExecutablePath(exe))
            THEN <<Event("make_executable")>> ELSE <<>>)

\* extract, the hooks after the extraction
PostInstallHooks(f, n, exe) ==
    (IF n = "wine" THEN <<Event("cache_clear")>> ELSE <<>>)
        \o (IF exe # <<>> /\ isfile(f, ExecutablePath(exe))
            THEN <<Event("make_executable")>> ELSE <<>>)

Extract_Hooks ==
    /\ pc = "post_install"
    /\ events' = events \o PostInstallHooks(fs, name, runner_executable)
    /\ pc' = "callback"
    /\ UNCHANGED <<otherVars, descVars, sysVars, op, ops, version, opts, in_dialog, runner_info,
                   runner, outcome>>

\* extract, the completion callback; extract, the downloader and install return
Extract_Callback ==
    /\ pc = "callback"
    /\ LET fired == IF opts.callback THEN <<Event("callback")>> ELSE <<>>
       IN  IF in_dialog
           THEN /\ pc' = "dialog_return"
                /\ events' = events \o fired
                /\ outcome' = outcome
           ELSE Finish(Returned, fired)
    /\ UNCHANGED <<otherVars, descVars, sysVars, op, ops, version, opts, in_dialog, runner_info, runner>>

\* run, get_run_data: the command, and the environment whose shader cache
\* directory is made
Run_GetRunData ==
    /\ pc = "get_run_data"
    /\ fs' = MakeDirs(fs, SHADER_CACHE_DIR \o <<name>>)
    /\ Proceed("get_run_data",
               <<[ev |-> "get_run_data", command |-> <<ExecutablePath(runner_executable)>>]>>)
    /\ UNCHANGED <<otherVars, descVars, shared_libraries, system_arch, is_64_bit, op, ops, version,
                   opts, in_dialog, runner_info, runner>>

\* run, the prelaunch check
Run_Prelaunch ==
    /\ pc = "prelaunch"
    /\ LET check == PrelaunchCheck(require_libs, shared_libraries, arch)
       IN  IF check.kind = "raised"
           THEN Finish(check, <<Event("prelaunch")>>)
           ELSE Proceed("prelaunch", <<Event("prelaunch")>>)
    /\ UNCHANGED <<otherVars, descVars, sysVars, op, ops, version, opts, in_dialog, runner_info, runner>>

\* run, the process launcher is created and started
Run_Spawn ==
    /\ pc = "spawn"
    /\ Proceed("spawn",
               <<[ev |-> "MonitoredCommand.start",
                  command |-> <<ExecutablePath(runner_executable)>>, runner |-> name]>>)
    /\ UNCHANGED <<otherVars, descVars, sysVars, op, ops, version, opts, in_dialog, runner_info, runner>>

\* the runner as it is when nothing of it is on disk, and as a complete
\* installation leaves it
InstalledFs(n, exe) ==
    IF exe = <<>> THEN MakeDirs(EmptyFs, directory(n))
    ELSE WriteFile(MakeDirs(EmptyFs, directory(n)), ExecutablePath(exe))

IdleCall ==
    /\ op = "none"
    /\ ops = 0
    /\ version = NoVersion
    /\ opts = NoOpts
    /\ in_dialog = FALSE
    /\ runner_info = NoResponse
    /\ runner = None
    /\ outcome = Pending
    /\ events = <<>>

Init ==
    /\ name \in RunnerNames
    /\ runnable_alone \in BOOLEAN
    /\ require_libs \in {<<>>, <<"libGL">>}
    /\ arch = "i386"
    /\ download_url \in {NoUrl, FixedUrl}
    /\ runner_executable \in {<<>>, <<name, "bin", name>>}
    /\ shared_libraries = [lib \in {"libGL"} |-> {"x86_64"}]
    /\ system_arch = "x86_64"
    /\ is_64_bit = TRUE
    /\ fs \in {EmptyFs, InstalledFs(name, runner_executable)}
    /\ pc = "idle"
    /\ IdleCall
    /\ IdleOthers

Next ==
    \/ CallRun
    \/ CallInstall
    \/ Uninstall
    \/ Run_Enter
    \/ InstallDialog_Ask
    \/ InstallDialog_Return
    \/ Install_Begin
    \/ Install_Resolve
    \/ DownloadAndExtract
    \/ Downloader_Finish
    \/ Extract_Check
    \/ Extract_Archive
    \/ Extract_RemoveArchive
    \/ Extract_Hooks
    \/ Extract_Callback
    \/ Run_GetRunData
    \/ Run_Prelaunch
    \/ Run_Spawn

Spec == Init /\ [][Next]_vars

----------------------------------------------------------------------------
\* prelaunch alone, on every list of required libraries, inventory and
\* declared architecture

IdleRunner ==
    /\ name = "dosbox"
    /\ runnable_alone = FALSE
    /\ download_url = NoUrl
    /\ runner_executable = <<>>
    /\ fs = EmptyFs

InitPrelaunch ==
    /\ require_libs \in SeqsUpTo(Libs, MaxLibs)
    /\ arch \in Archs \cup {NoArch}
    /\ shared_libraries \in Inventories(Libs)
    /\ system_arch = "x86_64"
    /\ is_64_bit = TRUE
    /\ IdleRunner
    /\ pc = "call_prelaunch"
    /\ IdleCall
    /\ IdleOthers

Prelaunch ==
    /\ pc = "call_prelaunch"
    /\ outcome' = PrelaunchCheck(require_libs, shared_libraries, arch)
    /\ pc' = "done"
    /\ UNCHANGED <<otherVars, descVars, sysVars, op, ops, version, opts, in_dialog, runner_info,
                   runner, events>>

NextPrelaunch == Prelaunch

SpecPrelaunch == InitPrelaunch /\ [][NextPrelaunch]_vars

----------------------------------------------------------------------------
\* get_runner_version alone, on every catalog answer, requested version and
\* local architecture

InitVersion ==
    /\ runner_info \in Responses(MaxVersions)
    /\ version \in RequestedVersions
    /\ system_arch \in SystemArchs
    /\ is_64_bit \in BOOLEAN
    /\ require_libs = <<>>
    /\ arch = NoArch
    /\ shared_libraries = [lib \in {} |-> {}]
    /\ IdleRunner
    /\ pc = "call_get_runner_version"
    /\ op = "none"
    /\ ops = 0
    /\ opts = NoOpts
    /\ in_dialog = FALSE
    /\ runner = None
    /\ outcome = Pending
    /\ events = <<>>
    /\ IdleOthers

get_runner_version ==
    /\ pc = "call_get_runner_version"
    /\ runner' = GetRunnerVersion(runner_info, version, system_arch, is_64_bit)
    /\ outcome' = Returned
    /\ pc' = "done"
    /\ UNCHANGED <<otherVars, descVars, sysVars, op, ops, version, opts, in_dialog, runner_info, events>>

NextVersion == get_runner_version

SpecVersion == InitVersion /\ [][NextVersion]_vars

----------------------------------------------------------------------------
\* get_env on its own: one call, on every argument, process environment,
\* runtime environment and system configuration of the sets above.

InitEnv ==
    /\ os_env \in BOOLEAN
    /\ disable_runtime \in BOOLEAN
    /\ os_environ \in Environs
    /\ system_config \in SystemConfigs
    /\ RUNTIME_DISABLED \in BOOLEAN
    /\ runtime_env \in RuntimeEnvs
    /\ controllerdb \in {"", "030000005e0400008e02,X360 Controller"}
    /\ env = EmptyEnv
    /\ require_libs = <<>>
    /\ arch = NoArch
    /\ shared_libraries = [lib \in {} |-> {}]
    /\ system_arch = "x86_64"
    /\ is_64_bit = TRUE
    /\ IdleRunner
    /\ pc = "call_get_env"
    /\ IdleCall
    /\ IdleConfig
    /\ IdleSidebar

\* get_env up to the merge of the runtime's library path
GetEnv_Compute ==
    /\ pc = "call_get_env"
    /\ env' = ComputedEnv(os_env, disable_runtime, os_environ, system_config,
                          RUNTIME_DISABLED, runtime_env, controllerdb, name)
    /\ fs' = MakeDirs(fs, SHADER_CACHE_DIR \o <<name>>)
    /\ pc' = "overrides"
    /\ UNCHANGED <<descVars, shared_libraries, system_arch, is_64_bit, op, ops, version, opts,
                   in_dialog, runner_info, runner, outcome, events, os_env, disable_runtime,
                   os_environ, system_config, RUNTIME_DISABLED, runtime_env, controllerdb, confVars, sidebarVars>>

\* get_env, the user's overrides and the return
GetEnv_Overrides ==
    /\ pc = "overrides"
    /\ env' = ApplyOverrides(env, system_config)
    /\ outcome' = Returned
    /\ pc' = "done"
    /\ UNCHANGED <<descVars, sysVars, op, ops, version, opts, in_dialog, runner_info, runner,
                   events, os_env, disable_runtime, os_environ, system_config, RUNTIME_DISABLED,
                   runtime_env, controllerdb, confVars, sidebarVars>>

NextEnv == GetEnv_Compute \/ GetEnv_Overrides

SpecEnv == InitEnv /\ [][NextEnv]_vars

----------------------------------------------------------------------------
\* The configuration of one runner: its construction, then accesses to config
\* and game_config and assignments to config, in any order.

\* __init__
InitConfig ==
    /\ \E given \in {None} \cup {<<c>> : c \in ExplicitConfigs("dosbox")} :
        /\ has_explicit_config = (given # None)
        /\ config = given
        /\ events = <<[ev |-> "__init__", explicit |-> given # None]>>
    /\ returned = None
    /\ require_libs = <<>>
    /\ arch = NoArch
    /\ shared_libraries = [lib \in {} |-> {}]
    /\ system_arch = "x86_64"
    /\ is_64_bit = TRUE
    /\ IdleRunner
    /\ pc = "idle"
    /\ op = "none"
    /\ ops = 0
    /\ version = NoVersion
    /\ opts = NoOpts
    /\ in_dialog = FALSE
    /\ runner_info = NoResponse
    /\ runner = None
    /\ outcome = Pending
    /\ IdleEnv
    /\ IdleSidebar

\* the log of an access to the config property: a configuration is built
\* when the field changes
BuildLog(c, after) == IF after # c THEN <<Event("LutrisConfig")>> ELSE <<>>
Built(evs) == Cardinality({i \in DOMAIN evs : evs[i].ev = "LutrisConfig"})

\* the config property read
Get_config ==
    /\ ops < MaxAccesses
    /\ LET after == LazyConfig(config, name, Built(events) + 1)
       IN  /\ config' = after
           /\ returned' = after
           /\ events' = events \o <<Event("config")>> \o BuildLog(config, after)
    /\ op' = "config"
    /\ ops' = ops + 1
    /\ outcome' = Returned
    /\ UNCHANGED <<descVars, sysVars, pc, version, opts, in_dialog, runner_info, runner,
                   envVars, sidebarVars, has_explicit_config>>

\* the game_config property read
Get_game_config ==
    /\ ops < MaxAccesses
    /\ LET warned == IF ~has_explicit_config THEN <<Event("logger.warning")>> ELSE <<>>
           after == LazyConfig(config, name, Built(events) + 1)
       IN  /\ config' = after
           /\ returned' = <<after[1].game_config>>
           /\ events' = events \o <<Event("game_config")>> \o warned \o BuildLog(config, after)
    /\ op' = "game_config"
    /\ ops' = ops + 1
    /\ outcome' = Returned
    /\ UNCHANGED <<descVars, sysVars, pc, version, opts, in_dialog, runner_info, runner,
                   envVars, sidebarVars, has_explicit_config>>

\* the config property assigned
Set_config ==
    /\ ops < MaxAccesses
    /\ \E new \in {None} \cup {<<c>> : c \in ExplicitConfigs(name)} :
        /\ config' = new
        /\ has_explicit_config' = (new # None)
    /\ events' = Append(events, Event("config.setter"))
    /\ op' = "config.setter"
    /\ ops' = ops + 1
    /\ outcome' = Returned
    /\ UNCHANGED <<descVars, sysVars, pc, version, opts, in_dialog, runner_info, runner,
                   envVars, sidebarVars, returned>>

NextConfig == Get_config \/ Get_game_config \/ Set_config

SpecConfig == InitConfig /\ [][NextConfig]_vars

----------------------------------------------------------------------------
\* The sidebar: constructed, its rows initialized once, and then games start
\* and stop, the enabled services change and the user selects rows.  The
\* application adds a game to running_games before the game-start hooks run
\* and takes it out before the game-stop hooks run.

\* LutrisSidebar.__init__
InitSidebar ==
    /\ \E selected \in Selections :
        /\ selected_row_type = selected.type
        /\ selected_row_id = selected.id
    /\ running_games = 0
    /\ children = <<>>
    /\ running_row_visible = FALSE
    /\ selected_row = NoRow
    /\ require_libs = <<>>
    /\ arch = NoArch
    /\ shared_libraries = [lib \in {} |-> {}]
    /\ system_arch = "x86_64"
    /\ is_64_bit = TRUE
    /\ IdleRunner
    /\ pc = "idle"
    /\ IdleCall
    /\ IdleEnv
    /\ IdleConfig

\* initialize_rows
BuildRows(enabled) ==
    /\ children' = Rows(enabled)
    /\ selected_row' = InitialSelection(Rows(enabled), selected_row_type, selected_row_id)
    /\ running_row_visible' = FALSE

\* the first call of initialize_rows, by the window that owns the sidebar
initialize_rows ==
    /\ children = <<>>
    /\ \E enabled \in ServiceLists : BuildRows(enabled)
    /\ UNCHANGED <<descVars, sysVars, callVars, events, envVars, confVars, running_games,
                   selected_row_type, selected_row_id>>

on_game_start ==
    /\ children # <<>>
    /\ running_games < MaxGames
    /\ running_games' = running_games + 1
    /\ running_row_visible' = TRUE
    /\ UNCHANGED <<descVars, sysVars, callVars, events, envVars, confVars, children,
                   selected_row, selected_row_type, selected_row_id>>

on_game_stop ==
    /\ children # <<>>
    /\ running_games > 0
    /\ running_games' = running_games - 1
    /\ IF running_games' = 0
       THEN /\ running_row_visible' = FALSE
            /\ selected_row' = IF selected_row = running_row THEN children[1] ELSE selected_row
       ELSE UNCHANGED <<running_row_visible, selected_row>>
    /\ UNCHANGED <<descVars, sysVars, callVars, events, envVars, confVars, children,
                   selected_row_type, selected_row_id>>

on_services_changed ==
    /\ children # <<>>
    /\ \E enabled \in ServiceLists : BuildRows(enabled)
    /\ UNCHANGED <<descVars, sysVars, callVars, events, envVars, confVars, running_games,
                   selected_row_type, selected_row_id>>

\* the user selects a row that is shown
SelectRow ==
    /\ \E i \in DOMAIN children :
        /\ children[i] = running_row => running_row_visible
        /\ selected_row' = children[i]
    /\ UNCHANGED <<descVars, sysVars, callVars, events, envVars, confVars, running_games,
                   children, running_row_visible, selected_row_type, selected_row_id>>

NextSidebar ==
    \/ initialize_rows
    \/ on_game_start
    \/ on_game_stop
    \/ on_services_changed
    \/ SelectRow

SpecSidebar == InitSidebar /\ [][NextSidebar]_vars

----------------------------------------------------------------------------
\* The claims

\* a required library is unavailable: it is not in the inventory, or an
\* architecture is declared and no instance of the library has it
Unavailable(lib) ==
    \/ lib \notin DOMAIN shared_libraries
    \/ arch # NoArch /\ arch \notin shared_libraries[lib]

\* C1: prelaunch raises the unavailable-libraries error exactly when some
\* required library is unavailable, the error carries exactly the set of the
\* unavailable libraries (and the declared architecture), and prelaunch
\* returns normally when every required library is available.
C1_PrelaunchRaisesTheUnavailableSet ==
    pc = "done" =>
        LET missing == {lib \in ToSet(require_libs) : Unavailable(lib)}
        IN  /\ IsRaised(outcome, "UnavailableLibrariesError") <=> missing # {}
            /\ missing # {} => outcome.args = [libs |-> missing, arch |-> arch]
            /\ missing = {} => outcome = Returned

\* prelaunch has raised for a library that is in the inventory with the wrong
\* architecture only, while another required library was available
C1_Witness ==
    /\ pc = "done"
    /\ IsRaised(outcome, "UnavailableLibrariesError")
    /\ \E lib \in outcome.args.libs : lib \in DOMAIN shared_libraries
    /\ ToSet(require_libs) \ outcome.args.libs # {}

\* the index of the first event e of the call, 0 when there is none
FirstIndex(evs, e) ==
    IF Happened(evs, e)
    THEN CHOOSE i \in DOMAIN evs :
            evs[i].ev = e /\ \A j \in DOMAIN evs : evs[j].ev = e => i <= j
    ELSE 0
ExecutableExists == path_exists(fs, ExecutablePath(runner_executable))

\* C2: in a run call the prelaunch check is over before the process launcher
\* is started; when prelaunch raises, the call ends with that error, no
\* process was spawned by it, and the runner is still installed.
C2_PrelaunchBeforeSpawn ==
    op = "run" =>
        /\ Happened(events, "MonitoredCommand.start") =>
                /\ Happened(events, "prelaunch")
                /\ FirstIndex(events, "prelaunch") < FirstIndex(events, "MonitoredCommand.start")
        /\ pc = "spawn" => Happened(events, "prelaunch")
        /\ IsRaised(outcome, "UnavailableLibrariesError") =>
                /\ pc = "idle"
                /\ ~Happened(events, "MonitoredCommand.start")
                /\ ExecutableExists

\* a run call that installed the runner first has ended in the error of prelaunch
C2_Witness ==
    /\ op = "run"
    /\ IsRaised(outcome, "UnavailableLibrariesError")
    /\ Happened(events, "QuestionDialog")
    /\ Happened(events, "remove_archive")

\* the installation error that left install: raised to the caller of a direct
\* install, shown by install_dialog in a run call
InstallErrorIs(message) ==
    IF op = "install"
    THEN pc = "idle" /\ outcome = Raise("RunnerInstallationError", message)
    ELSE \E i \in DOMAIN events :
            events[i].ev = "ErrorDialog" /\ events[i].message = message
ExtractFailures == {i \in DOMAIN events :
                        events[i].ev = "extract_archive" /\ events[i].raised = "ExtractFailure"}
MissingArchiveReported == InstallErrorIs([text |-> "Failed to extract {}", args |-> <<opts.archive>>])
Launching ==
    \/ pc \in {"get_run_data", "prelaunch", "spawn"}
    \/ Happened(events, "get_run_data")
    \/ Happened(events, "prelaunch")
    \/ Happened(events, "MonitoredCommand.start")

\* C3: in a run call that installs the runner, a failure of the download or
\* of the extraction (the archive is missing, or extract_archive raises an
\* extraction failure) is reported and leaves the runner not installed, and
\* the call goes on to launch only after a download and an extraction that
\* both succeeded.
C3_FailedInstallLeavesNotInstalled ==
    (op = "run" /\ Happened(events, "QuestionDialog")) =>
        /\ ExtractFailures # {} => Happened(events, "ErrorDialog")
        /\ (ExtractFailures # {} \/ MissingArchiveReported) =>
                ~is_installed(fs, name, runner_executable)
        /\ Launching => Happened(events, "remove_archive")

\* C4: in a run call on a runner that was not installed, when the user
\* refuses the install prompt, or the runner is still not installed when
\* install_dialog returns, run returns without an error and without fetching
\* run data, running prelaunch or spawning a process; run fetches run data,
\* runs prelaunch and spawns only with the runner's executable on disk.
C4_NoLaunchUnlessInstalled ==
    op = "run" =>
        /\ Launching => runnable_alone /\ ExecutableExists
        /\ \/ \E i \in DOMAIN events : events[i].ev = "QuestionDialog" /\ ~events[i].yes
           \/ Happened(events, "QuestionDialog") /\ pc = "idle" /\ ~ExecutableExists
           => /\ pc = "idle"
              /\ outcome = Returned
              /\ ~Launching

\* a run call whose installation failed has returned, the runner not installed
C4_Witness ==
    /\ op = "run"
    /\ pc = "idle"
    /\ Happened(events, "ErrorDialog")
    /\ ~ExecutableExists
    /\ outcome = Returned

\* C5: an install call without a downloader always ends in the RuntimeError
\* "Missing mandatory downloader", with no download started, whether or not
\* the runner has a download URL and whether or not a version is resolved.
C5_NoDownloaderIsAlwaysRuntimeError ==
    (op = "install" /\ ~opts.downloader /\ pc = "idle") =>
        /\ outcome = Raise("RuntimeError", "Missing mandatory downloader")
        /\ ~Happened(events, "downloader")

\* C6: for a runner without a download URL, when get_runner_version returns
\* nothing, install raises the installation error "Failed to retrieve ..."
\* and the downloader is not invoked; a catalog request that fails or gives
\* no data makes get_runner_version return nothing, not raise.
C6_UnresolvedVersionIsInstallationError ==
    /\ (download_url = NoUrl /\ Happened(events, "catalog") /\ runner = None) =>
            /\ ~Happened(events, "downloader")
            /\ InstallErrorIs([text |-> "Failed to retrieve {} ({}) information",
                               args |-> <<name, version>>])
    /\ \A i \in DOMAIN events :
            events[i].ev = "catalog" /\ events[i].status # "ok" => runner = None

\* a direct install without a downloader found no candidate in a catalog that
\* lists versions, and ended in the installation error
C6_Witness ==
    /\ op = "install"
    /\ ~opts.downloader
    /\ runner = None
    /\ \E i \in DOMAIN events :
            events[i].ev = "catalog" /\ events[i].status = "ok" /\ events[i].listed > 0
    /\ IsRaised(outcome, "RunnerInstallationError")

PostInstallRan ==
    \/ Happened(events, "cache_clear")
    \/ Happened(events, "make_executable")
    \/ Happened(events, "callback")

\* C7: when extract_archive raises an extraction failure, extract raises an
\* installation error whose message holds the message of the failure, and
\* neither the post-install hooks nor the completion callback run; when the
\* archive does not exist, extract raises an installation error without
\* having called extract_archive.
C7_ExtractFailureIsWrapped ==
    /\ \A i \in ExtractFailures :
            /\ InstallErrorIs([text |-> "Failed to extract {}: {}",
                               args |-> <<opts.archive, events[i].message>>])
            /\ ~PostInstallRan
    /\ (Happened(events, "downloader") /\ MissingArchiveReported) =>
            /\ ~Happened(events, "extract_archive")
            /\ ~PostInstallRan

\* a direct install with a callback, of a wine runner, failed in extract_archive
C7_Witness ==
    /\ op = "install"
    /\ name = "wine"
    /\ opts.callback
    /\ ExtractFailures # {}
    /\ IsRaised(outcome, "RunnerInstallationError")

Downloads == {i \in DOMAIN events : events[i].ev = "downloader"}

\* C8: with a fixed download URL, install never queries the catalog, whatever
\* version is requested, and, given a downloader, invokes it exactly once,
\* with that URL, the runner's own directory as destination and
\* single-directory merging off.
C8_FixedUrlSkipsResolution ==
    (download_url # NoUrl /\ op \in {"install", "run"}) =>
        /\ ~Happened(events, "catalog")
        /\ \A i \in Downloads :
                /\ events[i].url = download_url
                /\ events[i].args.dest = <<"runners", name>>
                /\ events[i].args.merge_single = FALSE
        /\ Cardinality(Downloads) <= 1
        /\ (op = "install" /\ opts.downloader /\ pc \notin {"install", "download_and_extract"})
                => Cardinality(Downloads) = 1

\* a direct install of a version of the wine runner from its fixed URL is over
C8_Witness ==
    /\ op = "install"
    /\ download_url # NoUrl
    /\ name = "wine"
    /\ version # NoVersion
    /\ pc = "idle"
    /\ Cardinality(Downloads) = 1

\* what a requested version asks for: the version without its architecture
\* suffix, and the architecture selected (the suffix, or the local one)
HasArchSuffix == Len(version) >= 2 /\ version[Len(version)] \in {"i386", "x86_64"}
WantedVersion == IF HasArchSuffix THEN SubSeq(version, 1, Len(version) - 1) ELSE version
SelectedArch == IF HasArchSuffix THEN version[Len(version)] ELSE system_arch
\* the catalog positions of the candidates of the selected architecture
ArchCandidates ==
    {i \in DOMAIN runner_info.versions :
        /\ version # NoVersion => runner_info.versions[i].version = WantedVersion
        /\ runner_info.versions[i].architecture = SelectedArch}
Lowest(S) == CHOOSE i \in S : \A j \in S : i <= j

\* C9: when the requested version ends in -i386 or -x86_64 and the catalog
\* lists the version without the suffix for the architecture of the suffix,
\* get_runner_version returns an entry of that version and that
\* architecture, whatever the local architecture is.
C9_SuffixSelectsArchitecture ==
    (pc = "done" /\ runner_info.status = "ok" /\ HasArchSuffix) =>
        ((\E i \in DOMAIN runner_info.versions :
                /\ runner_info.versions[i].version = WantedVersion
                /\ runner_info.versions[i].architecture = version[Len(version)])
         => /\ runner # None
            /\ runner[1].version = WantedVersion
            /\ runner[1].architecture = version[Len(version)])

\* catalog {1.0/x86_64/default, 1.0/i386}, request 1.0-i386 on an x86_64
\* system: the i386 entry is returned
C9_Witness ==
    /\ pc = "done"
    /\ version = <<"1.0", "i386">>
    /\ system_arch = "x86_64"
    /\ is_64_bit
    /\ runner_info.status = "ok"
    /\ Len(runner_info.versions) = 2
    /\ runner_info.versions[1].version = <<"1.0">>
    /\ runner_info.versions[1].architecture = "x86_64"
    /\ runner_info.versions[1].default
    /\ runner_info.versions[2].version = <<"1.0">>
    /\ runner_info.versions[2].architecture = "i386"
    /\ ~runner_info.versions[2].default
    /\ runner = <<runner_info.versions[2]>>

\* C10: when more than one candidate has the selected architecture,
\* get_runner_version returns the first of them flagged default, in catalog
\* order, and the first of them when none is flagged default.
C10_DefaultAmongArchCandidates ==
    (pc = "done" /\ runner_info.status = "ok" /\ Cardinality(ArchCandidates) > 1) =>
        LET flagged == {i \in ArchCandidates : runner_info.versions[i].default}
        IN  runner = <<runner_info.versions[
                            Lowest(IF flagged # {} THEN flagged ELSE ArchCandidates)]>>

\* two of three candidates of the architecture are flagged default, the first
\* candidate is not: the first flagged one is returned
C10_Witness ==
    /\ pc = "done"
    /\ runner_info.status = "ok"
    /\ Cardinality(ArchCandidates) = 3
    /\ Cardinality({i \in ArchCandidates : runner_info.versions[i].default}) = 2
    /\ ~runner_info.versions[1].default
    /\ runner = <<runner_info.versions[2]>>

\* the catalog positions of the candidates of the requested version, whatever
\* their architecture
VersionCandidates ==
    {i \in DOMAIN runner_info.versions :
        version # NoVersion => runner_info.versions[i].version = WantedVersion}

\* C11: when no candidate has the selected architecture: on a 64-bit system
\* a single candidate is returned as it is, and of several candidates the
\* (first) default-flagged one is returned, nothing when none is flagged; on
\* a system that is not 64-bit, and when there is no candidate, nothing is
\* returned.
C11_FallbackToOtherArchitecture ==
    (pc = "done" /\ runner_info.status = "ok" /\ ArchCandidates = {}) =>
        LET flagged == {i \in VersionCandidates : runner_info.versions[i].default}
        IN  IF ~is_64_bit \/ VersionCandidates = {} THEN runner = None
            ELSE IF Cardinality(VersionCandidates) = 1
            THEN runner = <<runner_info.versions[Lowest(VersionCandidates)]>>
            ELSE IF flagged = {} THEN runner = None
            ELSE runner = <<runner_info.versions[Lowest(flagged)]>>

\* a 64-bit system of an architecture the catalog has nothing for: of three
\* candidates the second, the first flagged default, is returned
C11_Witness ==
    /\ pc = "done"
    /\ runner_info.status = "ok"
    /\ ArchCandidates = {}
    /\ is_64_bit
    /\ Cardinality(VersionCandidates) = 3
    /\ ~runner_info.versions[1].default
    /\ runner = <<runner_info.versions[2]>>

\* what get_env starts from
Seeded == IF os_env THEN os_environ ELSE EmptyEnv

\* C12 as stated: with prime set the mapping get_env returns holds the three
\* prime variables, and with prime absent it holds none of them.
C12_PrimeSetsAllOrNone ==
    pc = "done" =>
        IF system_config.prime THEN PrimeNames \subseteq DOMAIN env
        ELSE PrimeNames \cap DOMAIN env = {}

\* C12, amended: with prime set the mapping get_env returns holds the three
\* prime variables; with prime absent it holds one of them exactly when the
\* user's overrides or the seeded process environment hold it, and with their
\* value, the overrides' first.
C12_PrimeSetsAllOrLeavesAlone ==
    pc = "done" =>
        IF system_config.prime THEN PrimeNames \subseteq DOMAIN env
        ELSE \A k \in PrimeNames :
                /\ k \in DOMAIN env <=> k \in DOMAIN system_config.env \cup DOMAIN Seeded
                /\ k \in DOMAIN system_config.env => env[k] = system_config.env[k]
                /\ k \in DOMAIN Seeded \ DOMAIN system_config.env => env[k] = Seeded[k]

C12_Witness ==
    /\ pc = "done"
    /\ ~system_config.prime
    /\ os_env
    /\ "__NV_PRIME_RENDER_OFFLOAD" \in DOMAIN env
    /\ "__VK_LAYER_NV_optimus" \notin DOMAIN env

\* C13: the step of get_env that applies the user's overrides gives every
\* name of the overrides the overrides' value and leaves every other name as
\* it was computed, present or absent.
C13_OverridesWin ==
    [][(pc = "overrides" /\ pc' = "done") =>
        /\ \A k \in DOMAIN system_config.env :
              k \in DOMAIN env' /\ env'[k] = system_config.env[k]
        /\ \A k \in (DOMAIN env \cup DOMAIN env') \ DOMAIN system_config.env :
              k \in DOMAIN env /\ k \in DOMAIN env' /\ env'[k] = env[k]]_vars

C13_Witness ==
    /\ pc = "done"
    /\ ~disable_runtime /\ ~RUNTIME_DISABLED /\ ~system_config.disable_runtime
    /\ Get(runtime_env, "LD_LIBRARY_PATH") # ""
    /\ "LD_LIBRARY_PATH" \in DOMAIN system_config.env
    /\ env["LD_LIBRARY_PATH"] = "/opt/mine"
    /\ env["__GL_SHADER_DISK_CACHE"] = "1"

\* whether the runtime is disabled for the call of get_env
RuntimeOff == disable_runtime \/ RUNTIME_DISABLED \/ system_config.disable_runtime

\* C18: in the mapping get_env has before the user's overrides, with the
\* runtime disabled LD_LIBRARY_PATH is as seeded, absent when the seed has
\* none; with the runtime enabled and supplying a path, it is that path, then
\* the path separator and the seeded value when there is a seeded value that
\* is not empty.
C18_RuntimeLibraryPathMerge ==
    pc = "overrides" =>
        LET rt == Get(runtime_env, "LD_LIBRARY_PATH")
            seeded == Get(Seeded, "LD_LIBRARY_PATH")
        IN  /\ RuntimeOff =>
                /\ "LD_LIBRARY_PATH" \in DOMAIN env <=> "LD_LIBRARY_PATH" \in DOMAIN Seeded
                /\ "LD_LIBRARY_PATH" \in DOMAIN env => env["LD_LIBRARY_PATH"] = seeded
            /\ (~RuntimeOff /\ rt # "") =>
                /\ "LD_LIBRARY_PATH" \in DOMAIN env
                /\ env["LD_LIBRARY_PATH"] = IF seeded = "" THEN rt ELSE rt \o pathsep \o seeded

C18_Witness ==
    /\ pc = "overrides"
    /\ ~RuntimeOff
    /\ "LD_LIBRARY_PATH" \in DOMAIN Seeded
    /\ Seeded["LD_LIBRARY_PATH"] = ""
    /\ env["LD_LIBRARY_PATH"] = "/runtime/lib32:/runtime/lib64"

\* a step that is a whole call of uninstall
UninstallStep == pc = "idle" /\ op' = "uninstall" /\ ops' = ops + 1

\* C14: uninstall returns without an error; where the install directory does
\* not exist it leaves the file system as it is; where it exists it removes
\* the directory with all it holds and nothing else, so that can_uninstall is
\* false afterwards; an uninstall straight after an uninstall changes nothing.
C14_UninstallIsIdempotent ==
    [][UninstallStep =>
        /\ outcome' = Returned
        /\ ~isdir(fs, directory(name)) => fs' = fs
        /\ isdir(fs, directory(name)) =>
              /\ \A q \in DOMAIN fs' : ~IsPrefix(directory(name), q)
              /\ \A q \in DOMAIN fs :
                    ~IsPrefix(directory(name), q) => q \in DOMAIN fs' /\ fs'[q] = fs[q]
        /\ ~can_uninstall(fs', name)
        /\ op = "uninstall" => fs' = fs]_vars

\* after a launch, which needs the executable inside the install directory,
\* an uninstall has left nothing of the directory, and a second one likewise
C14_Witness ==
    /\ op = "uninstall"
    /\ pc = "idle"
    /\ outcome = Returned
    /\ runner_executable # <<>>
    /\ isdir(fs, SHADER_CACHE_DIR \o <<name>>)
    /\ \A q \in DOMAIN fs : ~IsPrefix(directory(name), q)

\* C15: a call of run on a runner that is not runnable alone does nothing and
\* returns: no installation check, no install prompt, no get_run_data, no
\* prelaunch, no process, and the file system as it was.
C15_RunIsNoOpUnlessRunnableAlone ==
    [][(op' = "run" /\ ~runnable_alone) =>
        /\ events' = <<>>
        /\ ~in_dialog'
        /\ fs' = fs
        /\ pc' \in {"run", "idle"}
        /\ pc' = "idle" => outcome' = Returned]_vars

C15_Witness ==
    /\ op = "run"
    /\ ~runnable_alone
    /\ pc = "idle"
    /\ outcome = Returned
    /\ events = <<>>
    /\ runner_executable # <<>>
    /\ ~ExecutableExists

\* how often, and where, a step shows in the log of the call
Times(e) == Cardinality({i \in DOMAIN events : events[i].ev = e})
Extracted == \E i \in DOMAIN events : events[i].ev = "extract_archive" /\ events[i].raised = ""
ExtractOver == Extracted /\ pc \notin {"remove_archive", "post_install", "callback"}
Before(a, b) ==
    (Happened(events, a) /\ Happened(events, b)) => FirstIndex(events, a) < FirstIndex(events, b)

\* C17: in a call whose extraction succeeds, the extraction, the removal of
\* the archive, the version-cache clear, the marking of the executable and the
\* completion callback each happen at most once and in that order; the cache
\* clear happens for the runner named wine and no other, the marking when the
\* declared executable is a file, the callback when one was given, and each
\* then once by the time extract is over; the callback is never logged while
\* the archive exists.
C17_ExtractSuccessOrder ==
    Extracted =>
        /\ \A e \in {"extract_archive", "remove_archive", "cache_clear", "make_executable",
                     "callback"} : Times(e) <= 1
        /\ \A e \in {"remove_archive", "cache_clear", "make_executable", "callback"} :
              Before("extract_archive", e)
        /\ \A e \in {"cache_clear", "make_executable", "callback"} :
              Happened(events, e) => Happened(events, "remove_archive") /\ Before("remove_archive", e)
        /\ Before("cache_clear", "make_executable")
        /\ Before("cache_clear", "callback")
        /\ Before("make_executable", "callback")
        /\ Happened(events, "cache_clear") => name = "wine"
        /\ Happened(events, "make_executable") => isfile(fs, ExecutablePath(runner_executable))
        /\ Happened(events, "callback") => opts.callback /\ ~path_exists(fs, opts.archive)
        /\ ExtractOver =>
              /\ Times("remove_archive") = 1
              /\ Times("cache_clear") = (IF name = "wine" THEN 1 ELSE 0)
              /\ Times("make_executable") =
                    (IF runner_executable # <<>> /\ isfile(fs, ExecutablePath(runner_executable))
                     THEN 1 ELSE 0)
              /\ Times("callback") = (IF opts.callback THEN 1 ELSE 0)

C17_Witness ==
    /\ ExtractOver
    /\ name = "wine"
    /\ Times("cache_clear") = 1
    /\ Times("make_executable") = 1
    /\ Times("callback") = 1
    /\ FirstIndex(events, "callback") = Len(events)
    /\ ~path_exists(fs, opts.archive)

\* the runner was constructed without a configuration and none was assigned
NeverGivenConfig == ~events[1].explicit /\ ~Happened(events, "config.setter")

\* C16: on a runner constructed without a configuration, and assigned none
\* since, no access fails; has_explicit_config is false; at most one
\* configuration is ever built, and the field holds it from then on; every
\* access to game_config logs a warning and returns the empty game level of
\* that configuration.
C16_LazyConfigBuiltOnce ==
    (Len(events) >= 1 /\ events[1].ev = "__init__" /\ NeverGivenConfig) =>
        /\ outcome \in {Pending, Returned}
        /\ ~has_explicit_config
        /\ Built(events) <= 1
        /\ config = (IF Built(events) = 0 THEN None ELSE <<LutrisConfig(name, 1)>>)
        /\ op \in {"config", "game_config"} => Built(events) = 1
        /\ op = "config" => returned = config
        /\ op = "game_config" => returned = <<EmptyDict>>
        /\ \A i \in DOMAIN events :
              events[i].ev = "game_config" =>
                  i < Len(events) /\ events[i + 1].ev = "logger.warning"

C16_Witness ==
    /\ NeverGivenConfig
    /\ ops = 3
    /\ op = "game_config"
    /\ Times("logger.warning") = 2
    /\ Built(events) = 1
    /\ events[Len(events)].ev = "logger.warning"
    /\ returned = <<EmptyDict>>

\* C19 as stated: once the rows are there, the Running row is shown exactly
\* while a game is running, and a Running row that is hidden is not the
\* selected row.
C19_RunningRowFollowsGames ==
    children # <<>> =>
        /\ running_row_visible <=> running_games > 0
        /\ ~(selected_row = running_row /\ ~running_row_visible)

====
